---------------------------- MODULE Spec2Model ----------------------------
(***************************************************************************)
(* WayColor: the color model (src/src/color.rs) and the picker's input     *)
(* handling (src/src/app.rs), as a state machine whose step is one frame   *)
(* of App::update.                                                         *)
(*                                                                         *)
(* The Rust code computes every conversion in f32 and truncates with       *)
(* `as u16`.  The f32 results differ from exact arithmetic often enough to *)
(* move a truncated channel by one unit, so the conversions below are      *)
(* computed on IEEE-754 binary32 values (round to nearest, ties to even),  *)
(* not on rationals.                                                       *)
(***************************************************************************)
EXTENDS Integers, Sequences, FiniteSets

(***************************************************************************)
(* f32.  A value is a record [k, sg, m, e]:                                *)
(*   k = "num": the number sg * m * 2^e, with m = 0 (zero, sg = 1, e = 0)  *)
(*              or 2^23 <= m < 2^24 (normal numbers; the program never     *)
(*              produces a subnormal);                                     *)
(*   k = "inf": sg * infinity;   k = "nan": not a number.                  *)
(***************************************************************************)
Pow2(n) == 2 ^ n

MantBits == 24

F32Zero == [k |-> "num", sg |-> 1, m |-> 0, e |-> 0]

F32NaN == [k |-> "nan", sg |-> 1, m |-> 0, e |-> 0]

F32Inf(sg) == [k |-> "inf", sg |-> sg, m |-> 0, e |-> 0]

\* Number of significant bits of M, 0 < M < 2^30: the n with
\* 2^(n-1) <= M < 2^n, searched downward from 30 for a wide M and upward
\* from 1 for a narrow one.
RECURSIVE BitLenDown(_, _)
BitLenDown(M, n) == IF M >= Pow2(n - 1) THEN n ELSE BitLenDown(M, n - 1)

RECURSIVE BitLenUp(_, _)
BitLenUp(M, n) == IF M < Pow2(n) THEN n ELSE BitLenUp(M, n + 1)

BitLen(M) == IF M >= Pow2(MantBits) THEN BitLenDown(M, 30) ELSE BitLenUp(M, 1)

F32Num(sg, m, e) == [k |-> "num", sg |-> sg, m |-> m, e |-> e]

\* q1 * 2^(e + sh), renormalised when the rounding carried into bit 24.
F32Carry(sg, e, sh, q1) ==
    IF q1 = Pow2(MantBits) THEN F32Num(sg, Pow2(MantBits - 1), e + sh + 1)
    ELSE F32Num(sg, q1, e + sh)

\* Round to nearest, ties to even: q is M without its low sh bits, rem
\* those bits, half = 2^(sh-1).
F32Nearest(sg, e, sh, q, rem, half) ==
    F32Carry(sg, e, sh,
             IF rem > half \/ (rem = half /\ q % 2 = 1) THEN q + 1 ELSE q)

\* M has n significant bits.
F32Sized(sg, M, e, n) ==
    IF n <= MantBits
    THEN F32Num(sg, M * Pow2(MantBits - n), e - (MantBits - n))
    ELSE F32Nearest(sg, e, n - MantBits, M \div Pow2(n - MantBits),
                    M % Pow2(n - MantBits), Pow2(n - MantBits - 1))

\* The f32 nearest to sg * M * 2^e (ties to even), 0 <= M < 2^30.
F32Round(sg, M, e) == IF M = 0 THEN F32Zero ELSE F32Sized(sg, M, e, BitLen(M))

\* `n as f32` for an integer n, |n| < 2^24 (exact).
F32FromInt(n) == F32Round(IF n < 0 THEN -1 ELSE 1, IF n < 0 THEN -n ELSE n, 0)

\* q with a sticky low bit: set when the discarded part r is not zero.
Sticky(q, r) == IF r # 0 /\ q % 2 = 0 THEN q + 1 ELSE q

F32Neg(a) == IF a.k = "num" /\ a.m = 0 THEN a ELSE [a EXCEPT !.sg = -a.sg]

F32Abs(a) == [a EXCEPT !.sg = 1]

\* |a| < |b| for numbers.
MagLt(a, b) ==
    IF a.m = 0 THEN b.m # 0
    ELSE IF b.m = 0 THEN FALSE
    ELSE a.e < b.e \/ (a.e = b.e /\ a.m < b.m)

\* a < b (false when either is NaN, as in IEEE 754).
F32Lt(a, b) ==
    IF a.k = "nan" \/ b.k = "nan" THEN FALSE
    ELSE IF a.k = "inf" THEN a.sg < 0 /\ ~(b.k = "inf" /\ b.sg < 0)
    ELSE IF b.k = "inf" THEN b.sg > 0
    ELSE IF a.sg # b.sg THEN a.sg < b.sg
    ELSE IF a.sg = 1 THEN MagLt(a, b) ELSE MagLt(b, a)

F32Eq(a, b) == a.k # "nan" /\ b.k # "nan" /\ a = b

F32Le(a, b) == F32Lt(a, b) \/ F32Eq(a, b)

\* f32::max / f32::min on numbers.
F32Max(a, b) == IF F32Lt(a, b) THEN b ELSE a

F32Min(a, b) == IF F32Lt(b, a) THEN b ELSE a

\* a plus b's mantissa aligned to a's exponent (B, three extra bits and a
\* sticky bit).
AddAligned(a, b, B) ==
    F32Round(a.sg, IF a.sg = b.sg THEN a.m * 8 + B ELSE a.m * 8 - B, a.e - 3)

\* The magnitude-ordered sum of two numbers, |a| >= |b|.
AddOrdered(a, b) ==
    IF b.m = 0 THEN a
    ELSE AddAligned(a, b,
             IF a.e - b.e >= 27 THEN 1
             ELSE Sticky((b.m * 8) \div Pow2(a.e - b.e),
                         (b.m * 8) % Pow2(a.e - b.e)))

\* a + b
F32Add(a, b) ==
    IF a.k = "nan" \/ b.k = "nan" THEN F32NaN
    ELSE IF a.k = "inf"
         THEN IF b.k = "inf" /\ b.sg # a.sg THEN F32NaN ELSE a
    ELSE IF b.k = "inf" THEN b
    ELSE AddOrdered(IF MagLt(a, b) THEN b ELSE a, IF MagLt(a, b) THEN a ELSE b)

\* a - b
F32Sub(a, b) == F32Add(a, F32Neg(b))

\* The 48-bit product H * 2^24 + L of two mantissas, reduced to 30 bits
\* with a sticky bit and rounded.
MulJoined(a, b, H, L) ==
    F32Round(a.sg * b.sg, Sticky(H * 64 + (L \div Pow2(18)), L % Pow2(18)),
             a.e + b.e + 18)

MulSummed(a, b, hi, mid, L0) ==
    MulJoined(a, b, hi + (mid \div 4096) + (L0 \div Pow2(24)), L0 % Pow2(24))

MulCrossed(a, b, hi, mid, lo) ==
    MulSummed(a, b, hi, mid, lo + (mid % 4096) * 4096)

\* The mantissas as 12-bit limbs: a.m = a1 * 4096 + a0, b.m likewise.
MulLimbs(a, b, a1, a0, b1, b0) ==
    MulCrossed(a, b, a1 * b1, a1 * b0 + a0 * b1, a0 * b0)

\* a * b
F32Mul(a, b) ==
    IF a.k = "nan" \/ b.k = "nan" THEN F32NaN
    ELSE IF a.k = "inf" \/ b.k = "inf"
         THEN IF (a.k = "num" /\ a.m = 0) \/ (b.k = "num" /\ b.m = 0)
              THEN F32NaN ELSE F32Inf(a.sg * b.sg)
    ELSE IF a.m = 0 \/ b.m = 0 THEN F32Zero
    ELSE MulLimbs(a, b, a.m \div 4096, a.m % 4096, b.m \div 4096, b.m % 4096)

\* Long division: `bits` more quotient bits of r / d, six at a time.
RECURSIVE DivBits(_, _, _, _)
DivBits(q, r, d, bits) ==
    IF bits = 0 THEN <<q, r>>
    ELSE IF bits >= 6
    THEN DivBits(q * 64 + ((r * 64) \div d), (r * 64) % d, d, bits - 6)
    ELSE DivBits(q * Pow2(bits) + ((r * Pow2(bits)) \div d),
                 (r * Pow2(bits)) % d, d, 0)

\* qr: the quotient of the mantissas with 26 more bits, and the remainder.
DivRounded(a, b, qr) ==
    F32Round(a.sg * b.sg, Sticky(qr[1], qr[2]), a.e - b.e - 26)

\* a / b
F32Div(a, b) ==
    IF a.k = "nan" \/ b.k = "nan" THEN F32NaN
    ELSE IF a.k = "inf"
         THEN IF b.k = "inf" THEN F32NaN ELSE F32Inf(a.sg * b.sg)
    ELSE IF b.k = "inf" THEN F32Zero
    ELSE IF b.m = 0 THEN IF a.m = 0 THEN F32NaN ELSE F32Inf(a.sg * b.sg)
    ELSE IF a.m = 0 THEN F32Zero
    ELSE DivRounded(a, b, DivBits(a.m \div b.m, a.m % b.m, b.m, 26))

\* a % n (Rust's `%` on f32: fmod, exact) for a number a >= 0 and an
\* integer n > 0.
F32Rem(a, n) ==
    IF a.k # "num" THEN F32NaN
    ELSE IF F32Lt(a, F32FromInt(n)) THEN a
    ELSE IF a.e >= 0 THEN F32FromInt((a.m * Pow2(a.e)) % n)
    ELSE F32Round(1, a.m % (n * Pow2(-a.e)), a.e)

\* A variant of the cast that saturates a NaN upward.
F32ToU16NanMax(a) ==
    IF a.k = "nan" THEN 65535
    ELSE IF a.k = "inf" THEN IF a.sg > 0 THEN 65535 ELSE 0
    ELSE IF a.sg < 0 \/ a.m = 0 THEN 0
    ELSE IF a.e >= 0 THEN 65535
    ELSE IF -a.e >= MantBits THEN 0
    ELSE IF a.m \div Pow2(-a.e) > 65535 THEN 65535
    ELSE a.m \div Pow2(-a.e)

\* `a as u16`: truncation toward zero, saturating, NaN to 0.
F32ToU16(a) ==
    IF a.k = "nan" THEN 0
    ELSE IF a.k = "inf" THEN IF a.sg > 0 THEN 65535 ELSE 0
    ELSE IF a.sg < 0 \/ a.m = 0 THEN 0
    ELSE IF a.e >= 0 THEN 65535
    ELSE IF -a.e >= MantBits THEN 0
    ELSE IF a.m \div Pow2(-a.e) > 65535 THEN 65535
    ELSE a.m \div Pow2(-a.e)

\* A variant of Clamp that does not clamp.
NoClamp(x, lo, hi) == x

\* u16::clamp(lo, hi)
Clamp(x, lo, hi) == IF x < lo THEN lo ELSE IF x > hi THEN hi ELSE x

(***************************************************************************)
(* color.rs: the conversions.                                              *)
(***************************************************************************)
\* The f32 literals of color.rs and app.rs.
F1 == F32FromInt(1)

F60 == F32FromInt(60)

F100 == F32FromInt(100)

F255 == F32FromInt(255)

F10000 == F32FromInt(10000)

\* 0.0001
F32Epsilon == F32Div(F1, F10000)

\* (60.0 * ((x - y) / delta) + off) % 360.0
hue_sector(x, y, delta, off) ==
    F32Rem(F32Add(F32Mul(F60, F32Div(F32Sub(x, y), delta)), F32FromInt(off)),
           360)

\* The hue of rgb_to_hsv.
hue_of(r01, g01, b01, cmax, delta) ==
    IF F32Le(delta, F32Epsilon) THEN F32Zero
    ELSE IF F32Eq(cmax, r01) THEN hue_sector(g01, b01, delta, 360)
    ELSE IF F32Eq(cmax, g01) THEN hue_sector(b01, r01, delta, 120)
    ELSE IF F32Eq(cmax, b01) THEN hue_sector(r01, g01, delta, 240)
    ELSE F32Zero

rgb_to_hsv_delta(r01, g01, b01, cmax, delta) ==
    <<F32ToU16(hue_of(r01, g01, b01, cmax, delta)),
      F32ToU16(IF ~F32Eq(cmax, F32Zero)
               THEN F32Mul(F32Div(delta, cmax), F100)
               ELSE F32Zero),
      F32ToU16(F32Mul(cmax, F100))>>

rgb_to_hsv_01(r01, g01, b01, cmax, cmin) ==
    rgb_to_hsv_delta(r01, g01, b01, cmax, F32Sub(cmax, cmin))

rgb_to_hsv_unit(r01, g01, b01) ==
    rgb_to_hsv_01(r01, g01, b01, F32Max(r01, F32Max(g01, b01)),
                  F32Min(r01, F32Min(g01, b01)))

rgb_to_hsv(r, g, b) ==
    rgb_to_hsv_unit(F32Div(F32FromInt(r), F255), F32Div(F32FromInt(g), F255),
                    F32Div(F32FromInt(b), F255))

\* ((x01 + m) * 255.0) as u16
hsv_to_rbg_channel(x01, m) == F32ToU16(F32Mul(F32Add(x01, m), F255))

hsv_to_rbg_01(t, m) ==
    <<hsv_to_rbg_channel(t[1], m), hsv_to_rbg_channel(t[2], m),
      hsv_to_rbg_channel(t[3], m)>>

\* A variant with the red and green channels exchanged in every sextant.
hsv_to_rbg_sextant_swapped(h, c, x, m) ==
    hsv_to_rbg_01(IF h < 60 THEN <<x, c, F32Zero>>
                  ELSE IF h < 120 THEN <<c, x, F32Zero>>
                  ELSE IF h < 180 THEN <<c, F32Zero, x>>
                  ELSE IF h < 240 THEN <<x, F32Zero, c>>
                  ELSE IF h < 300 THEN <<F32Zero, x, c>>
                  ELSE <<F32Zero, c, x>>,
                  m)

hsv_to_rbg_sextant(h, c, x, m) ==
    hsv_to_rbg_01(IF h < 60 THEN <<c, x, F32Zero>>
                  ELSE IF h < 120 THEN <<x, c, F32Zero>>
                  ELSE IF h < 180 THEN <<F32Zero, c, x>>
                  ELSE IF h < 240 THEN <<F32Zero, x, c>>
                  ELSE IF h < 300 THEN <<x, F32Zero, c>>
                  ELSE <<c, F32Zero, x>>,
                  m)

hsv_to_rbg_chroma(h, v01, c) ==
    hsv_to_rbg_sextant(h, c,
        F32Mul(c, F32Sub(F1, F32Abs(F32Sub(F32Rem(F32Div(F32FromInt(h), F60), 2),
                                           F1)))),
        F32Sub(v01, c))

hsv_to_rbg_unit(h, s01, v01) == hsv_to_rbg_chroma(h, v01, F32Mul(s01, v01))

hsv_to_rbg(h, s, v) ==
    hsv_to_rbg_unit(h, F32Div(F32FromInt(s), F100), F32Div(F32FromInt(v), F100))

F2 == F32FromInt(2)

\* 0.5
FHalf == F32Div(F1, F2)

\* rgb_to_hsl computes its hue with the statements of rgb_to_hsv (hue_of).
rgb_to_hsl_delta(r01, g01, b01, cmax, delta, l) ==
    <<F32ToU16(hue_of(r01, g01, b01, cmax, delta)),
      F32ToU16(IF F32Lt(F32Epsilon, delta)
               THEN F32Mul(F32Div(delta,
                                  F32Sub(F1, F32Abs(F32Sub(F32Mul(F2, l), F1)))),
                           F100)
               ELSE F32Zero),
      F32ToU16(F32Mul(l, F100))>>

rgb_to_hsl_01(r01, g01, b01, cmax, cmin) ==
    rgb_to_hsl_delta(r01, g01, b01, cmax, F32Sub(cmax, cmin),
                     F32Mul(F32Add(cmax, cmin), FHalf))

rgb_to_hsl_unit(r01, g01, b01) ==
    rgb_to_hsl_01(r01, g01, b01, F32Max(r01, F32Max(g01, b01)),
                  F32Min(r01, F32Min(g01, b01)))

rgb_to_hsl(r, g, b) ==
    rgb_to_hsl_unit(F32Div(F32FromInt(r), F255), F32Div(F32FromInt(g), F255),
                    F32Div(F32FromInt(b), F255))

\* ((1.0 - x01 - k) / (1.0 - k) * 100.0) as u16
rgb_to_cymk_channel(x01, k) ==
    F32ToU16(F32Mul(F32Div(F32Sub(F32Sub(F1, x01), k), F32Sub(F1, k)), F100))

\* The tuple is returned in the order (c, y, m, k).
rgb_to_cymk_k(r01, g01, b01, k) ==
    <<rgb_to_cymk_channel(r01, k), rgb_to_cymk_channel(b01, k),
      rgb_to_cymk_channel(g01, k), F32ToU16(F32Mul(k, F100))>>

rgb_to_cymk_unit(r01, g01, b01) ==
    rgb_to_cymk_k(r01, g01, b01, F32Sub(F1, F32Max(r01, F32Max(g01, b01))))

rgb_to_cymk(r, g, b) ==
    rgb_to_cymk_unit(F32Div(F32FromInt(r), F255), F32Div(F32FromInt(g), F255),
                     F32Div(F32FromInt(b), F255))


(***************************************************************************)
(* Strings are sequences of one-character strings.                         *)
(***************************************************************************)
DecChars == <<"0", "1", "2", "3", "4", "5", "6", "7", "8", "9">>

HexChars == DecChars \o <<"A", "B", "C", "D", "E", "F">>

LowerHexChars == DecChars \o <<"a", "b", "c", "d", "e", "f">>

\* The index of c in the sequence chars, 0 when it is not there.
IndexOf(c, chars) ==
    IF \E i \in 1..Len(chars) : chars[i] = c
    THEN CHOOSE i \in 1..Len(chars) : chars[i] = c
    ELSE 0

\* format!("{:X?}", n) for an unsigned n: upper-case hex, no padding.
RECURSIVE UpperHex(_)
UpperHex(n) ==
    IF n < 16 THEN <<HexChars[n + 1]>>
    ELSE UpperHex(n \div 16) \o <<HexChars[(n % 16) + 1]>>

\* u16::to_string, and format!("{:.0}", n) for a u16.
RECURSIVE to_string(_)
to_string(n) ==
    IF n < 10 THEN <<DecChars[n + 1]>>
    ELSE to_string(n \div 10) \o <<DecChars[(n % 10) + 1]>>

get_hex(r, g, b) == <<"#">> \o UpperHex(r) \o UpperHex(g) \o UpperHex(b)

\* char::to_digit(16): the digit's value, -1 for any other character.
HexDigit(c) ==
    IF IndexOf(c, HexChars) > 0 THEN IndexOf(c, HexChars) - 1
    ELSE IF IndexOf(c, LowerHexChars) > 0 THEN IndexOf(c, LowerHexChars) - 1
    ELSE -1

RECURSIVE HexValue(_)
HexValue(ds) ==
    IF ds = <<>> THEN 0
    ELSE HexValue(SubSeq(ds, 1, Len(ds) - 1)) * 16 + HexDigit(ds[Len(ds)])

\* u32::from_str_radix(s, 16): the value, or -1 for Err.  A leading '+' is
\* accepted, a '-' is not (the type is unsigned); at most 6 characters are
\* ever passed, so the value cannot overflow.
from_str_radix(s) ==
    LET ds == IF s # <<>> /\ s[1] = "+" THEN Tail(s) ELSE s
    IN IF ds = <<>> \/ \E i \in 1..Len(ds) : HexDigit(ds[i]) < 0
       THEN -1
       ELSE HexValue(ds)

(***************************************************************************)
(* color.rs: Color and its constructors.                                   *)
(***************************************************************************)
Color(r, g, b, h, s, v, hex) ==
    [r |-> r, g |-> g, b |-> b, h |-> h, s |-> s, v |-> v, hex |-> hex]

\* Color { r, g, b, h, s, v, hex } from the channels and an (h, s, v) tuple.
ColorOfRgb(r, g, b, hsv, hex) == Color(r, g, b, hsv[1], hsv[2], hsv[3], hex)

\* Color { r, g, b, h, s, v, hex } from an (r, g, b) tuple and the channels.
ColorOfHsv(rgb, h, s, v) ==
    Color(rgb[1], rgb[2], rgb[3], h, s, v, get_hex(rgb[1], rgb[2], rgb[3]))

from_rgb_clamped(r, g, b) ==
    ColorOfRgb(r, g, b, rgb_to_hsv(r, g, b), get_hex(r, g, b))

\* A variant that stores the channels as given.
from_rgb_unclamped(r, g, b) == from_rgb_clamped(r, g, b)

from_rgb(r, g, b) ==
    from_rgb_clamped(Clamp(r, 0, 255), Clamp(g, 0, 255), Clamp(b, 0, 255))

from_hsv_clamped(h, s, v) == ColorOfHsv(hsv_to_rbg(h, s, v), h, s, v)

from_hsv(h, s, v) ==
    from_hsv_clamped(Clamp(h, 0, 360), Clamp(s, 0, 100), Clamp(v, 0, 100))

\* Option<Color>: [some, val]; val is Color::default() for None.
None == [some |-> FALSE, val |-> Color(0, 0, 0, 0, 0, 0, <<>>)]

Some(c) == [some |-> TRUE, val |-> c]

from_hex_rgb(hex, r, g, b) ==
    Some(ColorOfRgb(r, g, b, rgb_to_hsv(r, g, b), hex))

\* value: the result of from_str_radix.
from_hex_value(hex, value) ==
    IF value < 0 THEN None
    ELSE from_hex_rgb(hex, (value \div 65536) % 256, (value \div 256) % 256,
                      value % 256)

from_hex(hex) ==
    IF Len(hex) # 7 THEN None
    ELSE IF hex[1] # "#" THEN None
    ELSE from_hex_value(hex, from_str_radix(Tail(hex)))

Labels == {"r", "g", "b", "h", "s", "v"}

value_by_name(c, name) ==
    CASE name = "r" -> c.r
      [] name = "g" -> c.g
      [] name = "b" -> c.b
      [] name = "h" -> c.h
      [] name = "s" -> c.s
      [] name = "v" -> c.v
      [] OTHER -> 0

\* str::parse::<f32>: [ok, val].  Covers the forms the enumerated inputs
\* use: an optional sign, then "inf", "NaN", or decimal digits with at most
\* one '.', at least one digit in all, fewer than 8 digits; any other
\* character of the input alphabet makes it Err.  (Exponent forms are not
\* among the inputs.)  N / 10^k of two exactly represented integers is the
\* correctly rounded value of the decimal.
RECURSIVE DecValue(_)
DecValue(ds) ==
    IF ds = <<>> THEN 0
    ELSE DecValue(SubSeq(ds, 1, Len(ds) - 1)) * 10
         + (IndexOf(ds[Len(ds)], DecChars) - 1)

\* The magnitude of the digit string with `frac` digits after the point.
parse_f32_digits(sg, digits, frac) ==
    IF digits = <<>> \/ \E i \in 1..Len(digits) : IndexOf(digits[i], DecChars) = 0
    THEN [ok |-> FALSE, val |-> F32Zero]
    ELSE [ok |-> TRUE,
          val |-> F32Div(F32FromInt(sg * DecValue(digits)),
                         F32FromInt(10 ^ frac))]

parse_f32_body(sg, body) ==
    IF body = <<"i", "n", "f">> THEN [ok |-> TRUE, val |-> F32Inf(sg)]
    ELSE IF body = <<"N", "a", "N">> THEN [ok |-> TRUE, val |-> F32NaN]
    ELSE IF Cardinality({i \in 1..Len(body) : body[i] = "."}) > 1
    THEN [ok |-> FALSE, val |-> F32Zero]
    ELSE parse_f32_digits(sg, SelectSeq(body, LAMBDA c : c # "."),
             IF \E i \in 1..Len(body) : body[i] = "."
             THEN Len(body) - (CHOOSE i \in 1..Len(body) : body[i] = ".")
             ELSE 0)

parse_f32(text) ==
    IF text # <<>> /\ text[1] \in {"+", "-"}
    THEN parse_f32_body(IF text[1] = "-" THEN -1 ELSE 1, Tail(text))
    ELSE parse_f32_body(1, text)

\* str::trim
RECURSIVE trim(_)
trim(t) ==
    IF t = <<>> THEN t
    ELSE IF t[1] \in {" ", "\n"} THEN trim(Tail(t))
    ELSE IF t[Len(t)] \in {" ", "\n"} THEN trim(SubSeq(t, 1, Len(t) - 1))
    ELSE t

(***************************************************************************)
(* app.rs: App.  The handlers are operators on the record `a` of App's     *)
(* fields, [tab, color, hex, gradient_click, slider_clicks, slider_texts], *)
(* plus one observation field, set_color: "no" while the frame has not     *)
(* called set_color, "last" when set_color was the frame's last write to   *)
(* color or a text buffer, "overwritten" when a text widget wrote its      *)
(* buffer after it.                                                        *)
(***************************************************************************)
gradient_width == 380

gradient_height == 270

slider_height == 20

slider_margin == 12

spacing == 5

text_edit_width == 50

label_width == 5

\* draw_slider's `size`
slider_width ==
    gradient_width - slider_margin * 2 - spacing * 2 - text_edit_width
    - label_width

Tabs == {"RGB", "HSV", "Values"}

\* draw_sliders: the sliders of a tab, in drawing order.
TabLabels(t) ==
    CASE t = "RGB" -> <<"r", "g", "b">>
      [] t = "HSV" -> <<"h", "s", "v">>
      [] OTHER -> <<>>

\* The interact_rect of a surface, relative to its own min corner.
Rect(gtype) ==
    IF gtype = "main" THEN [w |-> gradient_width, h |-> gradient_height]
    ELSE [w |-> slider_width, h |-> slider_height]

\* A variant of set_color that stores the color and leaves the text buffers.
set_color_only(a, c) == [a EXCEPT !.color = c, !.set_color = "last"]

set_color(a, c) ==
    [a EXCEPT !.color = c,
              !.hex = c.hex,
              !.slider_texts = [l \in Labels |-> to_string(value_by_name(c, l))],
              !.set_color = "last"]

\* A variant of get_fixed_color_value that never scales t by max.
get_fixed_color_value_unscaled(t, max, scaled) == Clamp(F32ToU16(t), 0, max)

get_fixed_color_value(t, max, scaled) ==
    Clamp(IF scaled THEN F32ToU16(F32Mul(t, F32FromInt(max))) ELSE F32ToU16(t),
          0, max)

\* The match on the channel name with the fixed value: each arm replaces
\* the one channel it names and keeps the two others; the default arm
\* yields red.
change_color_value_arm(c, label, value) ==
    IF label \in {"h", "s", "v"}
    THEN from_hsv(IF label = "h" THEN value ELSE c.h,
                  IF label = "s" THEN value ELSE c.s,
                  IF label = "v" THEN value ELSE c.v)
    ELSE from_rgb(IF label = "r" THEN value
                  ELSE IF label \in {"g", "b"} THEN c.r ELSE 255,
                  IF label = "g" THEN value
                  ELSE IF label \in {"r", "b"} THEN c.g ELSE 0,
                  IF label = "b" THEN value
                  ELSE IF label \in {"r", "g"} THEN c.b ELSE 0)

change_color_value(c, label, t, scaled) ==
    change_color_value_arm(c, label,
        get_fixed_color_value(t,
            IF label \in {"r", "g", "b"} THEN 255
            ELSE IF label = "h" THEN 360 ELSE 100,
            scaled))

\* A variant of handle_gradient_click_color whose plane has v grow downward.
handle_gradient_click_color_flipped(c, gtype, rect, px, py) ==
    IF gtype = "main"
    THEN from_hsv(c.h,
             F32ToU16(F32Mul(F32Div(px, F32FromInt(rect.w)), F100)),
             F32ToU16(F32Mul(F32Div(py, F32FromInt(rect.h)), F100)))
    ELSE change_color_value(c, gtype, F32Div(px, F32FromInt(rect.w)), TRUE)

\* The color for the clamped position (px, py), relative to the min corner
\* of rect.
handle_gradient_click_color(c, gtype, rect, px, py) ==
    IF gtype = "main"
    THEN from_hsv(c.h,
             F32ToU16(F32Mul(F32Div(px, F32FromInt(rect.w)), F100)),
             F32ToU16(F32Mul(F32Sub(F1, F32Div(py, F32FromInt(rect.h))), F100)))
    ELSE change_color_value(c, gtype, F32Div(px, F32FromInt(rect.w)), TRUE)

\* A variant of handle_gradient_click_drag that recomputes the color only
\* while the pointer is inside the rectangle.
handle_gradient_click_drag_inside(a1, resp, gtype, rect, click) ==
    IF ~click THEN a1
    ELSE IF ~resp.hover \/ ~resp.contains_pointer THEN a1
    ELSE set_color(a1,
             handle_gradient_click_color(a1.color, gtype, rect,
                 F32FromInt(Clamp(resp.x, 0, rect.w)),
                 F32FromInt(Clamp(resp.y, 0, rect.h))))

\* After the flag update: a1 holds the new flag, click.
handle_gradient_click_drag(a1, resp, gtype, rect, click) ==
    IF ~click THEN a1
    ELSE IF ~resp.hover THEN a1
    ELSE set_color(a1,
             handle_gradient_click_color(a1.color, gtype, rect,
                 F32FromInt(Clamp(resp.x, 0, rect.w)),
                 F32FromInt(Clamp(resp.y, 0, rect.h))))

handle_gradient_click_flag(a, resp, gtype, click) ==
    handle_gradient_click_drag(
        IF gtype = "main" THEN [a EXCEPT !.gradient_click = click]
        ELSE [a EXCEPT !.slider_clicks[gtype] = click],
        resp, gtype, Rect(gtype), click)

\* A variant of handle_gradient_click_from that raises the flag whenever
\* the pointer is inside the rectangle, whatever the button does.
handle_gradient_click_from_hover(a, resp, gtype, click0) ==
    handle_gradient_click_flag(a, resp, gtype,
        IF resp.contains_pointer /\ ~click0 THEN TRUE
        ELSE IF ~resp.down_on /\ click0 THEN FALSE
        ELSE click0)

\* click0: the flag of the surface when the handler starts.
handle_gradient_click_from(a, resp, gtype, click0) ==
    handle_gradient_click_flag(a, resp, gtype,
        IF resp.contains_pointer /\ resp.down_on /\ ~click0 THEN TRUE
        ELSE IF ~resp.down_on /\ click0 THEN FALSE
        ELSE click0)

\* resp: [contains_pointer, down_on, hover, x, y], what the handler reads
\* of egui's Response; (x, y) is hover_pos relative to the rect's min
\* corner, hover says that hover_pos is Some.
handle_gradient_click(a, resp, gtype) ==
    handle_gradient_click_from(a, resp, gtype,
        IF gtype = "main" THEN a.gradient_click ELSE a.slider_clicks[gtype])

\* A variant of handle_gradient_scroll that wraps around the channel's
\* range instead of clamping.
handle_gradient_scroll_wrap(a, resp, gtype, scroll) ==
    IF scroll = 0 \/ ~resp.contains_pointer THEN a
    ELSE IF gtype = "main" THEN a
    ELSE set_color(a,
             change_color_value(a.color, gtype,
                 F32FromInt((value_by_name(a.color, gtype)
                             + (IF scroll > 0 THEN 1 ELSE -1))
                            % ((IF gtype \in {"r", "g", "b"} THEN 255
                                ELSE IF gtype = "h" THEN 360 ELSE 100) + 1)),
                 FALSE))

\* scroll: the sign of raw_scroll_delta.y, 0 when there is none.
handle_gradient_scroll(a, resp, gtype, scroll) ==
    IF scroll = 0 \/ ~resp.contains_pointer THEN a
    ELSE IF gtype = "main" THEN a
    ELSE set_color(a,
             change_color_value(a.color, gtype,
                 F32FromInt(value_by_name(a.color, gtype)
                            + (IF scroll > 0 THEN 1 ELSE -1)),
                 FALSE))

draw_gradient(a, resp, gtype, scroll) ==
    handle_gradient_click(handle_gradient_scroll(a, resp, gtype, scroll),
                          resp, gtype)

\* A variant of on_slider_text_changed_parsed that takes the number as a
\* fraction of the channel's range.
on_slider_text_changed_scaled(a, label, t) ==
    set_color(a, IF t.ok THEN change_color_value(a.color, label, t.val, TRUE)
                 ELSE a.color)

\* A variant that leaves the state alone when the text does not parse.
on_slider_text_changed_kept(a, label, t) ==
    IF t.ok THEN set_color(a, change_color_value(a.color, label, t.val, FALSE))
    ELSE a

\* t: the result of text.parse::<f32>().
on_slider_text_changed_parsed(a, label, t) ==
    set_color(a, IF t.ok THEN change_color_value(a.color, label, t.val, FALSE)
                 ELSE a.color)

on_slider_text_changed(a, label) ==
    on_slider_text_changed_parsed(a, label, parse_f32(a.slider_texts[label]))

\* c: the result of Color::from_hex.
set_color_if_some(a, c) == IF c.some THEN set_color(a, c.val) ELSE a

\* `output` is the picker's standard output.
run_hyprpicker(a, output) == set_color_if_some(a, from_hex(trim(output)))

set_open(a, key, is_open) ==
    IF is_open /\ a.tab # key THEN [a EXCEPT !.tab = key] ELSE a

\* toggle_value flips is_open when the toggle is clicked.
draw_tab_toggle(a, label, clicked) ==
    set_open(a, label, IF clicked THEN a.tab # label ELSE a.tab = label)

(***************************************************************************)
(* The frame.  egui gives each drawn surface a Response; what it reports   *)
(* follows from the pointer and from the widget the button is held on.     *)
(* egui identifies a widget by its place in the layout, so the k-th slider *)
(* row is the same widget ("row1".."row3") on the RGB and on the HSV tab.  *)
(***************************************************************************)
MaxStep == 5

MaxFrames == 2

OutPx == 7

Rows == {"row1", "row2", "row3"}

Slots == {"main"} \cup Rows

SlotOf(gtype) ==
    CASE gtype = "main" -> "main"
      [] gtype \in {"r", "h"} -> "row1"
      [] gtype \in {"g", "s"} -> "row2"
      [] gtype \in {"b", "v"} -> "row3"

\* Pointer positions are sampled on a grid: index 0..MaxStep is k/MaxStep
\* of the rectangle's extent, -1 and MaxStep+1 lie OutPx outside it.
Grid == -1..(MaxStep + 1)

Pixel(k, len) ==
    IF k < 0 THEN -OutPx
    ELSE IF k > MaxStep THEN len + OutPx
    ELSE (k * len) \div MaxStep

Inside(p) == p.kx \in 0..MaxStep /\ p.ky \in 0..MaxStep

\* The sampled positions relative to a surface.  On the plane: the two
\* diagonals of the grid (they hold the four corners, inside and outside)
\* and two positions outside in one direction only.  On a slider row:
\* every column at mid-height, and two positions above the row.
Positions(slot) ==
    IF slot = "main"
    THEN {p \in [kx : Grid, ky : Grid] :
              \/ p.kx = p.ky
              \/ p.kx + p.ky = MaxStep
              \/ p \in {[kx |-> -1, ky |-> 1], [kx |-> 1, ky |-> MaxStep + 1]}}
    ELSE {p \in [kx : Grid, ky : {-1, 1}] : p.ky = 1 \/ p.kx \in {-1, 1}}

\* A frame's input: the pointer (gone: outside the window; over: the
\* surface whose rectangle contains it; (kx, ky): its grid position
\* relative to the surface ref), the button, the scroll sign, and at most
\* one keyboard or button event (kind, label, text).
NoInput ==
    [kind |-> "init", ref |-> "none", over |-> "none", kx |-> 0, ky |-> 0,
     gone |-> FALSE, btn |-> "up", scroll |-> 0, label |-> "", text |-> <<>>,
     set_color |-> "no"]

Away(kind, btn) == [NoInput EXCEPT !.kind = kind, !.btn = btn]

Gone(kind, btn) == [NoInput EXCEPT !.kind = kind, !.btn = btn, !.gone = TRUE]

At(kind, btn, ref, p) ==
    [NoInput EXCEPT !.kind = kind, !.btn = btn, !.ref = ref,
                    !.kx = p.kx, !.ky = p.ky,
                    !.over = IF Inside(p) THEN ref ELSE "none"]

Response(slot, owner, inp) ==
    [contains_pointer |-> inp.over = slot,
     down_on |-> owner = slot,
     hover |-> ~inp.gone /\ (owner = slot \/ (owner = "none" /\ inp.over = slot)),
     x |-> Pixel(inp.kx, IF slot = "main" THEN gradient_width ELSE slider_width),
     y |-> Pixel(inp.ky, IF slot = "main" THEN gradient_height ELSE slider_height)]

\* The text field of a slider, after its gradient: a1.
draw_slider_text(a1, label, inp) ==
    IF inp.kind = "text" /\ inp.label = label
    THEN on_slider_text_changed(
             [a1 EXCEPT !.slider_texts[label] = inp.text,
                        !.set_color = IF @ = "no" THEN @ ELSE "overwritten"],
             label)
    ELSE a1

draw_slider(a, label, owner, inp) ==
    draw_slider_text(
        draw_gradient(a, Response(SlotOf(label), owner, inp), label, inp.scroll),
        label, inp)

\* The loop over the first n labels of the selected tab.
RECURSIVE draw_sliders_upto(_, _, _, _)
draw_sliders_upto(a, n, owner, inp) ==
    IF n = 0 THEN a
    ELSE draw_slider(draw_sliders_upto(a, n - 1, owner, inp),
                     TabLabels(a.tab)[n], owner, inp)

draw_sliders(a, owner, inp) ==
    draw_sliders_upto(a, Len(TabLabels(a.tab)), owner, inp)

\* The hex field, after the picker button: the edit writes the typed text
\* into self.hex, then from_hex decides.
draw_footer_hex(a1, inp) ==
    IF inp.kind # "hex" THEN a1
    ELSE set_color_if_some(
             [a1 EXCEPT !.hex = inp.text,
                        !.set_color = IF @ = "no" THEN @ ELSE "overwritten"],
             from_hex(inp.text))

draw_footer(a, inp) ==
    draw_footer_hex(IF inp.kind = "picker" THEN run_hyprpicker(a, inp.text)
                    ELSE a,
                    inp)

\* The sliders and the footer, after the tab toggles: a2.
update_panel(a2, owner, inp) ==
    draw_footer(IF a2.tab # "Values" THEN draw_sliders(a2, owner, inp) ELSE a2,
                inp)

\* The three tab toggles, after the main gradient: a1.
update_toggles(a1, inp) ==
    draw_tab_toggle(
        draw_tab_toggle(
            draw_tab_toggle(a1, "RGB", inp.kind = "toggle" /\ inp.label = "RGB"),
            "HSV", inp.kind = "toggle" /\ inp.label = "HSV"),
        "Values", inp.kind = "toggle" /\ inp.label = "Values")

update(a, owner, inp) ==
    update_panel(
        update_toggles(
            draw_gradient([a EXCEPT !.set_color = "no"],
                          Response("main", owner, inp), "main", inp.scroll),
            inp),
        owner, inp)

(***************************************************************************)
(* gradient.rs: the GL objects of a Gradient, and App::on_exit.            *)
(***************************************************************************)
\* The Gradient of the main plane and those of the six sliders.
GradientTypes == {"main"} \cup Labels

\* Gradient::new: how often the program and vertex array of a Gradient
\* have been created and deleted.
new == [created |-> 1, destroyed |-> 0]

\* Gradient::destroy
destroy(g) == [g EXCEPT !.destroyed = @ + 1]

\* App::on_exit; gl is "Some" or "None".
on_exit(gs, gl) ==
    IF gl = "Some" THEN [t \in GradientTypes |-> destroy(gs[t])] ELSE gs

(***************************************************************************)
(* State: App's fields; gradients, the GL objects behind App's gradient    *)
(* and slider_gradients; phase, "running" until the app has exited or      *)
(* panicked; pressed_on, the widget egui holds the pointer                 *)
(* button on ("none": button up, "other": held on something that is not a  *)
(* gradient surface); last, the input of the frame just processed with     *)
(* what it did with set_color; frames, the number of frames so far.        *)
(***************************************************************************)
VARIABLES tab, color, hex, gradient_click, slider_clicks, slider_texts,
          gradients, phase, pressed_on, last, frames

vars == <<tab, color, hex, gradient_click, slider_clicks, slider_texts,
          gradients, phase, pressed_on, last, frames>>

self ==
    [tab |-> tab, color |-> color, hex |-> hex,
     gradient_click |-> gradient_click, slider_clicks |-> slider_clicks,
     slider_texts |-> slider_texts, set_color |-> "no"]

\* App::new
Init ==
    \E c \in {from_rgb(22, 22, 33)} :
       /\ tab = "HSV"
       /\ color = c
       /\ hex = c.hex
       /\ gradient_click = FALSE
       /\ slider_clicks = [l \in Labels |-> FALSE]
       /\ slider_texts = [l \in Labels |-> to_string(value_by_name(c, l))]
       /\ gradients = [t \in GradientTypes |-> new]
       /\ phase = "running"
       /\ pressed_on = "none"
       /\ last = NoInput
       /\ frames = 0

\* The widget the button is held on when the frame starts: egui forgets it
\* when the previous frame did not draw that widget.
Held == IF tab = "Values" /\ pressed_on \in Rows THEN "other" ELSE pressed_on

\* The surfaces the previous frame drew.
DrawnSlots == IF tab = "Values" THEN {"main"} ELSE Slots

\* The widget the button is held on after this frame's pointer events.
Owner(inp) ==
    IF inp.btn = "up" THEN "none"
    ELSE IF Held = "none"
         THEN IF inp.over \in Slots THEN inp.over ELSE "other"
    ELSE Held

\* The button's state when no button event arrives.
SameBtn == IF Held = "none" THEN "up" ELSE "down"

\* Where the pointer can be in a frame whose event is not a pointer event.
Parked(kind) ==
    IF Held \in Slots
    THEN {At(kind, "down", Held, p) :
              p \in {[kx |-> 1, ky |-> 1], [kx |-> -1, ky |-> 1]}}
    ELSE {Away(kind, SameBtn)}

Frame(inp) ==
    /\ phase = "running"
    /\ frames < MaxFrames
    /\ UNCHANGED gradients
    /\ UNCHANGED phase
    /\ \E a \in {update(self, Owner(inp), inp)} :
          /\ tab' = a.tab
          /\ color' = a.color
          /\ hex' = a.hex
          /\ gradient_click' = a.gradient_click
          /\ slider_clicks' = a.slider_clicks
          /\ slider_texts' = a.slider_texts
          /\ pressed_on' = Owner(inp)
          /\ last' = [inp EXCEPT !.set_color = a.set_color]
          /\ frames' = frames + 1

\* The button goes or stays down: a press on a surface or elsewhere, or a
\* move with the button held.
PointerDown ==
    \E inp \in
        IF Held = "none"
        THEN UNION {{At("pointer", "down", s, p) :
                         p \in {q \in Positions(s) : Inside(q)}} :
                    s \in DrawnSlots}
             \cup {Away("pointer", "down")}
        ELSE IF Held \in Slots
        THEN {At("pointer", "down", Held, p) : p \in Positions(Held)}
             \cup {Gone("pointer", "down")}
        ELSE {Away("pointer", "down")} :
        Frame(inp)

\* The button goes or stays up: a release, or a move without the button.
PointerUp ==
    \E inp \in
        IF Held \in Slots
        THEN {At("pointer", "up", Held, p) :
                  p \in {[kx |-> 1, ky |-> 1], [kx |-> -1, ky |-> 1]}}
             \cup {Gone("pointer", "up")}
        ELSE {At("pointer", "up", "main", [kx |-> 1, ky |-> 1]),
              Away("pointer", "up")} :
        Frame(inp)

\* A scroll tick with the pointer over a drawn surface.
Scroll ==
    \E over \in DrawnSlots, dir \in {-1, 1} :
        \E inp \in
            IF Held \in Slots /\ Held # over
            THEN {[At("scroll", "down", Held, [kx |-> -1, ky |-> -1])
                       EXCEPT !.over = over]}
            ELSE {At("scroll", SameBtn, over, [kx |-> 1, ky |-> 1])} :
            Frame([inp EXCEPT !.scroll = dir])

TextInputs ==
    {<<"4", "0", "0">>, <<"-", "5">>, <<"1", "2", ".", "7">>,
     <<"3", "5", "9">>, <<"1", "x">>, <<>>}

\* The user edits the text field of a visible slider.
SliderText ==
    \E i \in 1..Len(TabLabels(tab)), text \in TextInputs :
        \E inp \in Parked("text") :
            Frame([inp EXCEPT !.label = TabLabels(tab)[i], !.text = text])

HexInputs ==
    {<<"#", "1", "E", "9", "0", "F", "F">>, <<"#", "1", "2", "3", "4", "5">>,
     <<"#", "+", "1", "E", "9", "0", "F">>, <<"b", "a", "d">>,
     <<"#", "1", "e", "9", "0", "f", "f">>, <<"x", "1", "E", "9", "0", "F", "F">>,
     <<"#", "1", "E", "9", "0", "F", "G">>, <<"#", "-", "1", "E", "9", "0", "F">>}

\* The user edits the hex text field.
HexText ==
    \E text \in HexInputs :
        \E inp \in Parked("hex") : Frame([inp EXCEPT !.text = text])

PickerOutputs == {<<"#", "0", "A", "0", "B", "0", "C", "\n">>, <<>>}

\* The picker button is clicked and hyprpicker prints `text`.
Picker ==
    \E text \in PickerOutputs :
        \E inp \in Parked("picker") : Frame([inp EXCEPT !.text = text])

\* The picker button is clicked and /bin/hyprpicker cannot be run:
\* Command::output() is an Err and the expect panics.  The panic unwinds out
\* of the event loop; on_exit is not called and Gradient has no Drop.
PickerPanics ==
    /\ phase = "running"
    /\ phase' = "panicked"
    /\ last' = [NoInput EXCEPT !.kind = "panic"]
    /\ UNCHANGED <<tab, color, hex, gradient_click, slider_clicks,
                   slider_texts, gradients, pressed_on, frames>>

\* The window is closed and eframe calls on_exit.
Exit ==
    /\ phase = "running"
    /\ \E gl \in {"Some", "None"} : gradients' = on_exit(gradients, gl)
    /\ phase' = "exited"
    /\ last' = [NoInput EXCEPT !.kind = "exit"]
    /\ UNCHANGED <<tab, color, hex, gradient_click, slider_clicks,
                   slider_texts, pressed_on, frames>>

\* A tab toggle is clicked.
TabToggle ==
    \E label \in Tabs :
        \E inp \in Parked("toggle") : Frame([inp EXCEPT !.label = label])

Next ==
    \/ PointerDown
    \/ PointerUp
    \/ Scroll
    \/ SliderText
    \/ HexText
    \/ Picker
    \/ PickerPanics
    \/ Exit
    \/ TabToggle

Spec == Init /\ [][Next]_vars

(***************************************************************************)
(* The conversions of color.rs on their own.  They are pure, so one call   *)
(* from the initial state shows all a call can do: last is the call (its   *)
(* kind, its arguments and what was computed from its result) and color    *)
(* the Color it built.                                                     *)
(***************************************************************************)
\* The number of steps the sampled hues, percentages and channels are
\* spread over.
HueGrid == 24

PctGrid == 10

RgbGrid == 5

\* Arguments of from_hsv: h of [0, 360), s and v of [0, 100].
Hues == {(i * 360) \div HueGrid : i \in 0..(HueGrid - 1)} \cup {1, 59, 359}

Percents == {(i * 100) \div PctGrid : i \in 0..PctGrid} \cup {1, 2, 11, 99}

\* Arguments of from_rgb: u16 values, in and above [0, 255].
Channels == {(i * 255) \div RgbGrid : i \in 0..RgbGrid} \cup {256, 300, 65535}

\* The (r, g, b) of the colors the Values tab is shown for: every gray and
\* the sampled channels.
Shown ==
    {<<x, x, x>> : x \in 0..255}
    \cup {<<r, g, b>> : r, g, b \in {x \in Channels : x <= 255}}

\* c was built by the call recorded as call.
Called(call, c) ==
    /\ phase = "running"
    /\ frames = 0
    /\ color' = c
    /\ last' = call
    /\ frames' = 1
    /\ UNCHANGED <<tab, hex, gradient_click, slider_clicks, slider_texts,
                   gradients, phase, pressed_on>>

\* Color::from_hsv(h, s, v), and its r, g, b converted back by rgb_to_hsv.
FromHsv ==
    \E h \in Hues, s \in Percents, v \in Percents :
        \E c \in {from_hsv(h, s, v)} :
            Called([kind |-> "from_hsv", args |-> <<h, s, v>>,
                    hsv |-> rgb_to_hsv(c.r, c.g, c.b)], c)

\* Color::from_rgb(r, g, b)
FromRgb ==
    \E r \in Channels, g \in Channels, b \in Channels :
        Called([kind |-> "from_rgb", args |-> <<r, g, b>>], from_rgb(r, g, b))

\* The HSV, HSL and CYMK rows of the Values tab for a color.
Values ==
    \E rgb \in Shown :
        \E c \in {from_rgb(rgb[1], rgb[2], rgb[3])} :
            Called([kind |-> "values", args |-> rgb,
                    hsv |-> rgb_to_hsv(c.r, c.g, c.b),
                    hsl |-> rgb_to_hsl(c.r, c.g, c.b),
                    cymk |-> rgb_to_cymk(c.r, c.g, c.b)], c)

ConvNext ==
    \/ FromHsv
    \/ FromRgb
    \/ Values

ConvSpec == Init /\ [][ConvNext]_vars

(***************************************************************************)
(* The properties.  Action properties speak of one frame: unprimed         *)
(* variables are the state before it, primed ones the state after it, and  *)
(* last' is the frame's input.                                             *)
(***************************************************************************)
Surfaces == {"main"} \cup Labels

\* The drag flag of a surface: TRUE is Dragging, FALSE is Idle.
Flag(g) == IF g = "main" THEN gradient_click ELSE slider_clicks[g]

\* The surfaces whose handlers run in a frame that ends on tab t.
Processed(t) == {"main"} \cup {TabLabels(t)[i] : i \in 1..Len(TabLabels(t))}

ChannelMax(l) ==
    IF l \in {"r", "g", "b"} THEN 255 ELSE IF l = "h" THEN 360 ELSE 100

\* The two other channels of the color space of channel l.
OtherChannels(l) ==
    IF l \in {"r", "g", "b"} THEN {"r", "g", "b"} \ {l} ELSE {"h", "s", "v"} \ {l}

\* The pointer position of input inp, relative to the min corner of the
\* rectangle of surface g and clamped to it.
ClampedX(inp, g) == Clamp(Pixel(inp.kx, Rect(g).w), 0, Rect(g).w)

ClampedY(inp, g) == Clamp(Pixel(inp.ky, Rect(g).h), 0, Rect(g).h)

\* Two upper-case hex digits for a channel value.
Hex2(n) == <<HexChars[(n \div 16) + 1], HexChars[(n % 16) + 1]>>

\* The text buffers show the stored color.
InSync ==
    /\ hex = color.hex
    /\ \A l \in Labels : slider_texts[l] = to_string(value_by_name(color, l))

\* C1: in every reachable state, converting the stored (h, s, v) with
\* hsv_to_rbg differs from the stored (r, g, b) by at most 1 in each of
\* r, g, b.
C1_RgbHsvAgree ==
    \E rgb \in {hsv_to_rbg(color.h, color.s, color.v)} :
        /\ rgb[1] - color.r \in -1..1
        /\ rgb[2] - color.g \in -1..1
        /\ rgb[3] - color.b \in -1..1

\* C2: in every reachable state, the hex field of the color is '#' followed
\* by two hex digits per channel of its (r, g, b), zero-padded.
C2_HexCanonical ==
    color.hex = <<"#">> \o Hex2(color.r) \o Hex2(color.g) \o Hex2(color.b)

\* C3, as the code has it: in every reachable state r, g, b are in
\* [0,255], s, v in [0,100] and h in [0,360], 360 included.
C3_Ranges ==
    /\ color.r \in 0..255 /\ color.g \in 0..255 /\ color.b \in 0..255
    /\ color.s \in 0..100 /\ color.v \in 0..100
    /\ color.h \in 0..360

\* C3 witness: a hue of 360 is stored.
C3_Hue360Stored == color.h = 360

\* C3, as stated: the same ranges with h in [0,360), 360 never stored.
C3_HueBelow360 ==
    /\ color.r \in 0..255 /\ color.g \in 0..255 /\ color.b \in 0..255
    /\ color.s \in 0..100 /\ color.v \in 0..100
    /\ color.h \in 0..359

\* C4: a frame that changes the color calls set_color, and when set_color
\* was the last write of the frame the hex buffer equals the color's hex
\* and each of the six channel buffers the decimal value of its channel.
C4_SetColorSyncs ==
    [][/\ color' # color => last'.set_color # "no"
       /\ last'.set_color = "last" => InSync']_vars

\* C4 witness: a main-plane drag has changed the color through set_color.
C4_DragApplied ==
    /\ last.set_color = "last" /\ last.kind = "pointer"
    /\ gradient_click /\ color.s # 33

\* C5: a surface's flag goes from Idle to Dragging only in a frame where
\* the button is down on the surface and the pointer is inside its
\* rectangle; it goes back to Idle in the first frame that processes the
\* surface while the button is not held on it, wherever the pointer is;
\* and a frame without scroll, text, hex or picker event changes the color
\* only if a processed surface is Dragging.
C5_DragFlag ==
    [][/\ \A g \in Surfaces :
              ~Flag(g) /\ Flag(g)'
                  => pressed_on' = SlotOf(g) /\ last'.over = SlotOf(g)
       /\ \A g \in Processed(tab') :
              Flag(g) /\ pressed_on' # SlotOf(g) => ~Flag(g)'
       /\ last'.kind \in {"pointer", "toggle"} /\ color' # color
              => \E g \in Processed(tab') : Flag(g)']_vars

\* C5 witness: the button was released outside the plane's rectangle during
\* a drag of the plane, and the plane's flag is Idle again.
C5_ReleasedOutside ==
    /\ last.kind = "pointer" /\ last.btn = "up" /\ last.ref = "main"
    /\ last.over = "none" /\ ~last.gone
    /\ ~gradient_click /\ color.s # 33

\* C6: while a surface is Dragging and the button stays held on it, a
\* pointer move, inside the rectangle or outside it, sets the color to the
\* one computed from the position clamped to the rectangle.
C6_DragFollowsPointer ==
    [][\A g \in Processed(tab') :
           /\ Flag(g) /\ pressed_on' = SlotOf(g)
           /\ last'.kind = "pointer" /\ ~last'.gone
           => /\ Flag(g)'
              /\ color' = handle_gradient_click_color(color, g, Rect(g),
                              F32FromInt(ClampedX(last', g)),
                              F32FromInt(ClampedY(last', g)))]_vars

\* C6 witness: the plane is dragged to a position right of its rectangle
\* and the color is the one of the right edge.
C6_DraggedOutside ==
    /\ frames = 2 /\ gradient_click /\ pressed_on = "main"
    /\ last.kind = "pointer" /\ last.over = "none" /\ ~last.gone
    /\ last.kx = MaxStep + 1 /\ color.s = 100

\* A frame in which the plane is dragged at a position, and nothing else
\* happens.
PlaneDrag ==
    /\ gradient_click' /\ pressed_on' = "main"
    /\ last'.kind = "pointer" /\ ~last'.gone

\* C7, as the code has it: a drag on the plane at clamped (x, y) keeps the
\* hue, sets s to x/w*100 truncated and v to (1 - y/h)*100 truncated or,
\* where f32 rounding brings the product just below a whole number, one
\* less; the top-right corner gives s = 100, v = 100, the bottom-left
\* corner s = 0, v = 0.
C7_PlaneDrag ==
    [][PlaneDrag =>
          /\ color'.h = color.h
          /\ color'.s * gradient_width <= 100 * ClampedX(last', "main")
          /\ 100 * ClampedX(last', "main") < (color'.s + 1) * gradient_width
          /\ color'.v * gradient_height
                 <= 100 * (gradient_height - ClampedY(last', "main"))
          /\ 100 * (gradient_height - ClampedY(last', "main"))
                 <= (color'.v + 1) * gradient_height
          /\ ClampedY(last', "main") = 0 => color'.v = 100
          /\ ClampedY(last', "main") = gradient_height => color'.v = 0]_vars

\* C7 witness: the plane is dragged at its exact top-right corner.
C7_TopRight ==
    /\ gradient_click /\ pressed_on = "main" /\ last.kind = "pointer"
    /\ last.kx = MaxStep /\ last.ky = 0
    /\ color.h = 240 /\ color.s = 100 /\ color.v = 100

\* C7, as stated: s = x/w*100 and v = (1 - y/h)*100, hue kept; the integer
\* stored is the whole part of the exact value.
C7_PlaneDragExact ==
    [][PlaneDrag =>
          /\ color'.h = color.h
          /\ color'.s * gradient_width <= 100 * ClampedX(last', "main")
          /\ 100 * ClampedX(last', "main") < (color'.s + 1) * gradient_width
          /\ color'.v * gradient_height
                 <= 100 * (gradient_height - ClampedY(last', "main"))
          /\ 100 * (gradient_height - ClampedY(last', "main"))
                 < (color'.v + 1) * gradient_height]_vars

\* A frame in which the slider of channel l is dragged at a position, and
\* nothing else happens.
SliderDrag(l) ==
    /\ l \in Processed(tab') /\ l # "main"
    /\ slider_clicks'[l] /\ pressed_on' = SlotOf(l)
    /\ last'.kind = "pointer" /\ ~last'.gone

\* C8, as the code has it: a drag on the slider of channel l at clamped x
\* of width w sets the channel to x/w * channelMax truncated toward zero,
\* and leaves the two other channels of the same color space unchanged.
C8_SliderDrag ==
    [][\A l \in Labels :
           SliderDrag(l) =>
               /\ value_by_name(color', l) * slider_width
                      <= ClampedX(last', l) * ChannelMax(l)
               /\ ClampedX(last', l) * ChannelMax(l)
                      < (value_by_name(color', l) + 1) * slider_width
               /\ \A o \in OtherChannels(l) :
                      value_by_name(color', o) = value_by_name(color, o)]_vars

\* C8 witness: the h slider is dragged at one fifth of its width, where
\* x/w * 360 is 71.75, and h is 71.
C8_DraggedHue ==
    /\ slider_clicks["h"] /\ pressed_on = "row1" /\ tab = "HSV"
    /\ last.kind = "pointer" /\ last.kx = 1 /\ color.h = 71

\* C8, as stated: the channel is set to x/w * channelMax rounded to the
\* nearest integer, the two other channels unchanged.
C8_SliderDragRounds ==
    [][\A l \in Labels :
           SliderDrag(l) =>
               /\ value_by_name(color', l)
                      = (2 * ClampedX(last', l) * ChannelMax(l) + slider_width)
                            \div (2 * slider_width)
               /\ \A o \in OtherChannels(l) :
                      value_by_name(color', o) = value_by_name(color, o)]_vars

\* C9: a scroll tick over the slider of channel l, with no surface held by
\* the button, changes the channel by +1 (up) or -1 (down) clamped to
\* [0, channelMax] without wrap-around; a scroll tick over the plane does
\* not change the color.
C9_ScrollTick ==
    [][last'.kind = "scroll" /\ pressed_on' \notin Slots =>
          /\ last'.over = "main" => color' = color
          /\ \A l \in Processed(tab') \ {"main"} :
                 last'.over = SlotOf(l) =>
                     value_by_name(color', l)
                         = Clamp(value_by_name(color, l) + last'.scroll,
                                 0, ChannelMax(l))]_vars

\* C9 witness: an up tick over the h slider has left h at 360.
C9_ScrolledTo360 ==
    /\ last.kind = "scroll" /\ last.scroll = 1 /\ last.over = "row1"
    /\ tab = "HSV" /\ pressed_on = "none" /\ color.h = 360

\* The whole part of the decimal text, a sign and digits with at most one
\* point: 0 for a negative number.
WholePart(text) ==
    IF text[1] = "-" THEN 0
    ELSE DecValue(SubSeq(text, 1,
             IF \E i \in 1..Len(text) : text[i] = "."
             THEN (CHOOSE i \in 1..Len(text) : text[i] = ".") - 1
             ELSE Len(text)))

\* C10: a channel text entry that parses as a number sets the channel to
\* the whole part of the number clamped to [0, channelMax]: the maximum
\* for a larger value, 0 for a negative one.
C10_TextEntry ==
    [][last'.kind = "text" /\ parse_f32(last'.text).ok =>
          value_by_name(color', last'.label)
              = Clamp(WholePart(last'.text), 0, ChannelMax(last'.label))]_vars

\* C10 witness: "400" was entered for h and h is 360.
C10_Entered400 ==
    /\ last.kind = "text" /\ last.label = "h"
    /\ last.text = <<"4", "0", "0">> /\ color.h = 360

\* '#' followed by exactly six hexadecimal digits.
WellFormedHex(text) ==
    /\ Len(text) = 7
    /\ text[1] = "#"
    /\ \A i \in 2..7 :
          \E j \in 1..16 : text[i] = HexChars[j] \/ text[i] = LowerHexChars[j]

\* The byte written by the two hex digits of text at positions i and i + 1.
BytePair(text, i) == HexDigit(text[i]) * 16 + HexDigit(text[i + 1])

\* C11: from_hex accepts the text of a hex edit exactly when it is '#'
\* followed by six hex digits, and then r, g, b are its three byte pairs;
\* every other text, one with a sign character included, gives no color.
C11_FromHexStrict ==
    last.kind = "hex" =>
        \E c \in {from_hex(last.text)} :
           /\ c.some <=> WellFormedHex(last.text)
           /\ c.some /\ WellFormedHex(last.text) =>
                 /\ c.val.r = BytePair(last.text, 2)
                 /\ c.val.g = BytePair(last.text, 4)
                 /\ c.val.b = BytePair(last.text, 6)

\* C11, without the sign case: a text that is not 7 characters long, or does
\* not start with '#', or has a character other than a hex digit or '+'
\* among the six, gives no color; a well-formed text gives its byte pairs.
C11_FromHexUnsigned ==
    last.kind = "hex" /\ (Len(last.text) # 7 \/ WellFormedHex(last.text)
                          \/ last.text[2] # "+") =>
        \E c \in {from_hex(last.text)} :
           /\ c.some <=> WellFormedHex(last.text)
           /\ c.some =>
                 /\ c.val.r = BytePair(last.text, 2)
                 /\ c.val.g = BytePair(last.text, 4)
                 /\ c.val.b = BytePair(last.text, 6)

\* The text that from_hex is given by the frame with input inp: the edited
\* hex text, or the trimmed picker output.
HexCandidate(inp) == IF inp.kind = "picker" THEN trim(inp.text) ELSE inp.text

\* C12: after a frame whose hex edit or picker output from_hex rejects, the
\* displayed hex text is the hex of the stored color.
C12_RejectedHexResyncs ==
    last.kind \in {"hex", "picker"} /\ ~from_hex(HexCandidate(last)).some =>
        hex = color.hex

\* C12, the part about the color: a frame whose hex edit or picker output
\* from_hex rejects, with no surface held, leaves the color as it was.
C12_RejectedHexKeepsColor ==
    [][last'.kind \in {"hex", "picker"} /\ pressed_on' \notin Slots
       /\ ~from_hex(HexCandidate(last')).some => color' = color]_vars

\* C13: a frame in which the text typed for a channel does not parse as a
\* number leaves every text buffer, the edited one and the hex field
\* included, showing the stored color, and, when no surface is held,
\* leaves the color (r, g, b, h, s, v and hex) as it was.
C13_UnparsedText ==
    [][last'.kind = "text" /\ ~parse_f32(last'.text).ok =>
          /\ InSync'
          /\ pressed_on' \notin Slots => color' = color]_vars

\* C13 witness: "1x" was typed for h and the h buffer shows the stored hue
\* again.
C13_Typed1x ==
    /\ last.kind = "text" /\ last.label = "h" /\ last.text = <<"1", "x">>
    /\ last.set_color = "last" /\ pressed_on = "none"
    /\ slider_texts["h"] = to_string(color.h)
    /\ slider_texts["h"] # last.text

\* |x - y| <= 1
Near(x, y) == x - y \in {-1, 0, 1}

\* The stored color is a gray.
Gray == color.r = color.g /\ color.g = color.b

\* C14: for every h of [0, 360) and s, v of [0, 100], the r, g, b of
\* from_hsv(h, s, v) converted back by rgb_to_hsv give h', s', v' each
\* within 1 of h, s, v, except that a gray comes back with hue 0.
C14_RoundTrip ==
    last.kind = "from_hsv" =>
        /\ Near(last.hsv[2], last.args[2])
        /\ Near(last.hsv[3], last.args[3])
        /\ IF Gray THEN last.hsv[1] = 0 ELSE Near(last.hsv[1], last.args[1])

\* C14, as far as it holds: v' is v or v - 1; a gray comes back with hue 0
\* and saturation 0; and for s >= 50 and v >= 50, h' and s' are within 1 of
\* h and s.
C14_RoundTripBright ==
    last.kind = "from_hsv" =>
        /\ last.hsv[3] \in {last.args[3] - 1, last.args[3]}
        /\ Gray => last.hsv[1] = 0 /\ last.hsv[2] = 0
        /\ last.args[2] >= 50 /\ last.args[3] >= 50 =>
               /\ Near(last.hsv[1], last.args[1])
               /\ Near(last.hsv[2], last.args[2])

\* C14 witness: a round trip with s >= 50 and v >= 50 that lost 1 of the hue
\* and 1 of the value.
C14_BrightLostOne ==
    /\ last.kind = "from_hsv"
    /\ last.args[2] >= 50 /\ last.args[3] >= 50
    /\ ~Gray
    /\ last.hsv[1] = last.args[1] - 1
    /\ last.hsv[3] = last.args[3] - 1

\* u16 x limited to at most 255.
AtMost255(x) == IF x > 255 THEN 255 ELSE x

\* C15: the Color built by from_rgb(r, g, b) has exactly r, g, b as its
\* r, g, b fields when they are in [0, 255], and 255 in the place of every
\* argument above 255.
C15_FromRgbExact ==
    last.kind = "from_rgb" =>
        /\ color.r = AtMost255(last.args[1])
        /\ color.g = AtMost255(last.args[2])
        /\ color.b = AtMost255(last.args[3])

\* C15 witness: from_rgb(300, 51, 0) built a color with r = 255, g = 51 and
\* b = 0.
C15_Clamped300 ==
    /\ last.kind = "from_rgb" /\ last.args = <<300, 51, 0>>
    /\ color.r = 255 /\ color.g = 51 /\ color.b = 0

\* C17: the conversions return values on degenerate inputs: for (0, 0, 0),
\* where 1 - k is 0, rgb_to_cymk returns c = 0, y = 0, m = 0, k = 100, and
\* for every gray r = g = b, rgb_to_hsv and rgb_to_hsl return hue 0 and
\* saturation 0.
C17_Degenerate ==
    last.kind = "values" =>
        /\ last.args = <<0, 0, 0>> => last.cymk = <<0, 0, 0, 100>>
        /\ Gray => /\ last.hsv[1] = 0 /\ last.hsv[2] = 0
                   /\ last.hsl[1] = 0 /\ last.hsl[2] = 0

\* C17 witness: the Values rows were computed for black.
C17_Black ==
    /\ last.kind = "values" /\ last.args = <<0, 0, 0>>
    /\ last.cymk = <<0, 0, 0, 100>>
    /\ last.hsv = <<0, 0, 0>> /\ last.hsl = <<0, 0, 0>>

\* C18: in every reachable state at most one of the seven drag flags
\* (gradient_click and the six slider_clicks) is true.
C18_OneDrag == Cardinality({g \in Surfaces : Flag(g)}) <= 1

\* C16: each of the seven Gradients is created exactly once, and once the
\* app has shut down, by on_exit with or without a GL context or by a
\* panic, each has been destroyed exactly once.
C16_ReleasedOnce ==
    /\ \A t \in GradientTypes :
          gradients[t].created = 1 /\ gradients[t].destroyed <= 1
    /\ phase # "running" => \A t \in GradientTypes : gradients[t].destroyed = 1

\* C16, the part that holds: no Gradient is created again or destroyed
\* twice, none is destroyed while the app runs, and the seven are destroyed
\* together or not at all.
C16_NeverTwice ==
    /\ \A t \in GradientTypes :
          /\ gradients[t].created = 1
          /\ gradients[t].destroyed <= 1
          /\ gradients[t].destroyed = gradients["main"].destroyed
    /\ phase = "running" => gradients["main"].destroyed = 0
=============================================================================
